---- MODULE Spec2Model ----
(***************************************************************************)
(* tylar: type-level arithmetic on unary numerals Zero / Succ<N> / Pred<N>. *)
(* A number type is modelled by the sequence of its constructors, outermost *)
(* first: Succ<Succ<Zero>> is <<"Succ","Succ">>.  Every trait with an       *)
(* associated type Out is an operator that yields Out, or NoImpl when no    *)
(* impl of the trait applies.  Div is resolved obligation by obligation on  *)
(* an explicit stack, the way the trait solver nests its where-clauses.     *)
(***************************************************************************)
EXTENDS Integers, Sequences, FiniteSets, TLC

MaxMag == 4

Zero == <<>>
Succ(n) == <<"Succ">> \o n
Pred(n) == <<"Pred">> \o n

\* the answer of the trait solver when no impl matches the obligation
NoImpl == <<"NoImpl">>

NumType(n) == \A i \in 1..Len(n) : n[i] \in {"Succ", "Pred"}
PosType(n) == \A i \in 1..Len(n) : n[i] = "Succ"
NegType(n) == \A i \in 1..Len(n) : n[i] = "Pred"

IsSucc(n) == n # Zero /\ Head(n) = "Succ"
IsPred(n) == n # Zero /\ Head(n) = "Pred"

RECURSIVE Into(_)
Into(n) ==
    IF n = Zero THEN 0
    ELSE IF Head(n) = "Succ" THEN Into(Tail(n)) + 1
    ELSE Into(Tail(n)) - 1

RECURSIVE Neg_SameSign(_)
Neg_SameSign(a) ==
    IF a = Zero THEN Zero
    ELSE IF IsSucc(a) /\ PosType(Tail(a)) THEN Succ(Neg_SameSign(Tail(a)))
    ELSE IF IsPred(a) /\ NegType(Tail(a)) THEN Pred(Neg_SameSign(Tail(a)))
    ELSE NoImpl

RECURSIVE Neg(_)
Neg(a) ==
    IF a = Zero THEN Zero
    ELSE IF IsSucc(a) /\ PosType(Tail(a)) THEN
        LET B == Neg(Tail(a)) IN
        IF B # NoImpl /\ NegType(B) THEN Pred(B) ELSE NoImpl
    ELSE IF IsPred(a) /\ NegType(Tail(a)) THEN
        LET B == Neg(Tail(a)) IN
        IF B # NoImpl /\ PosType(B) THEN Succ(B) ELSE NoImpl
    ELSE NoImpl

Incr_Wrap(a) ==
    IF a = Zero THEN Succ(Zero)
    ELSE IF IsSucc(a) /\ PosType(Tail(a)) THEN Succ(a)
    ELSE IF IsPred(a) /\ NegType(Tail(a)) THEN Succ(a)
    ELSE NoImpl

Incr(a) ==
    IF a = Zero THEN Succ(Zero)
    ELSE IF IsSucc(a) /\ PosType(Tail(a)) THEN Succ(a)
    ELSE IF IsPred(a) /\ NegType(Tail(a)) THEN Tail(a)
    ELSE NoImpl

Decr(a) ==
    IF a = Zero THEN Pred(Zero)
    ELSE IF IsSucc(a) /\ PosType(Tail(a)) THEN Tail(a)
    ELSE IF IsPred(a) /\ NegType(Tail(a)) THEN Pred(a)
    ELSE NoImpl

RECURSIVE Add_IncrOnPred(_, _)
Add_IncrOnPred(a, b) ==
    IF a = Zero THEN b
    ELSE IF IsSucc(a) /\ PosType(Tail(a)) THEN
        LET C == Incr(b) IN
        IF C = NoImpl THEN NoImpl ELSE Add_IncrOnPred(Tail(a), C)
    ELSE IF IsPred(a) /\ NegType(Tail(a)) THEN
        LET C == Incr(b) IN
        IF C = NoImpl THEN NoImpl ELSE Add_IncrOnPred(Tail(a), C)
    ELSE NoImpl

RECURSIVE Add(_, _)
Add(a, b) ==
    IF a = Zero THEN b
    ELSE IF IsSucc(a) /\ PosType(Tail(a)) THEN
        LET C == Incr(b) IN
        IF C = NoImpl THEN NoImpl ELSE Add(Tail(a), C)
    ELSE IF IsPred(a) /\ NegType(Tail(a)) THEN
        LET C == Decr(b) IN
        IF C = NoImpl THEN NoImpl ELSE Add(Tail(a), C)
    ELSE NoImpl

Sub_NoNeg(a, b) ==
    IF NumType(a) /\ NumType(b) THEN Add(a, b) ELSE NoImpl

Sub(a, b) ==
    IF NumType(a) /\ NumType(b) THEN
        LET C == Neg(b) IN
        IF C = NoImpl THEN NoImpl ELSE Add(a, C)
    ELSE NoImpl

RECURSIVE Halve_OddBase(_)
Halve_OddBase(a) ==
    IF a = Zero \/ a = Succ(Zero) \/ a = Pred(Zero) THEN Zero
    ELSE IF IsSucc(a) /\ IsSucc(Tail(a)) /\ PosType(Tail(Tail(a))) THEN
        LET B == Halve_OddBase(Tail(Tail(a))) IN
        IF B = NoImpl THEN NoImpl ELSE Succ(B)
    ELSE IF IsPred(a) /\ IsPred(Tail(a)) /\ NegType(Tail(Tail(a))) THEN
        LET B == Halve_OddBase(Tail(Tail(a))) IN
        IF B = NoImpl THEN NoImpl ELSE Pred(B)
    ELSE NoImpl

RECURSIVE Halve(_)
Halve(a) ==
    IF a = Zero THEN Zero
    ELSE IF IsSucc(a) /\ IsSucc(Tail(a)) /\ PosType(Tail(Tail(a))) THEN
        LET B == Halve(Tail(Tail(a))) IN
        IF B = NoImpl THEN NoImpl ELSE Succ(B)
    ELSE IF IsPred(a) /\ IsPred(Tail(a)) /\ NegType(Tail(Tail(a))) THEN
        LET B == Halve(Tail(Tail(a))) IN
        IF B = NoImpl THEN NoImpl ELSE Pred(B)
    ELSE NoImpl

RECURSIVE Mul_NoNeg(_, _)
Mul_NoNeg(a, b) ==
    IF a = Zero THEN (IF NumType(b) THEN Zero ELSE NoImpl)
    ELSE IF IsSucc(a) /\ PosType(Tail(a)) THEN
        LET C == Mul_NoNeg(Tail(a), b) IN
        IF C = NoImpl THEN NoImpl ELSE Add(b, C)
    ELSE IF IsPred(a) /\ NegType(Tail(a)) THEN
        LET C == Mul_NoNeg(Tail(a), b) IN
        IF C = NoImpl THEN NoImpl ELSE Add(b, C)
    ELSE NoImpl

RECURSIVE Mul(_, _)
Mul(a, b) ==
    IF a = Zero THEN (IF NumType(b) THEN Zero ELSE NoImpl)
    ELSE IF IsSucc(a) /\ PosType(Tail(a)) THEN
        LET C == Mul(Tail(a), b) IN
        IF C = NoImpl THEN NoImpl ELSE Add(b, C)
    ELSE IF IsPred(a) /\ NegType(Tail(a)) THEN
        LET C  == Mul(Tail(a), b)
            NB == Neg(b)
        IN  IF C = NoImpl \/ NB = NoImpl THEN NoImpl ELSE Add(NB, C)
    ELSE NoImpl

(***************************************************************************)
(* Div.  DivImpl selects the impl whose header matches the obligation,      *)
(* DivWhere is the nested Div obligation of that impl's where-clause, and   *)
(* DivOut is the impl's Out given the Out of the nested obligation.         *)
(***************************************************************************)
DivImpl_AnyDivisor(a, b) ==
    IF a = Zero /\ PosType(b) THEN "ZeroByPos"
    ELSE IF a = Zero /\ IsPred(b) /\ NegType(Tail(b)) THEN "ZeroByNeg"
    ELSE IF IsSucc(a) /\ IsSucc(b) /\ NumType(Tail(a)) /\ NumType(Tail(b)) THEN "PosByPos"
    ELSE IF IsPred(a) /\ IsPred(b) /\ NegType(Tail(a)) /\ NegType(Tail(b)) THEN "NegByNeg"
    ELSE IF IsSucc(a) /\ IsPred(b) /\ NumType(Tail(a)) /\ NegType(Tail(b)) THEN "PosByNeg"
    ELSE IF IsPred(a) /\ IsSucc(b) /\ NegType(Tail(a)) /\ NumType(Tail(b)) THEN "NegByPos"
    ELSE "None"

DivImpl(a, b) ==
    IF a = Zero /\ IsSucc(b) /\ PosType(Tail(b)) THEN "ZeroByPos"
    ELSE IF a = Zero /\ IsPred(b) /\ NegType(Tail(b)) THEN "ZeroByNeg"
    ELSE IF IsSucc(a) /\ IsSucc(b) /\ NumType(Tail(a)) /\ NumType(Tail(b)) THEN "PosByPos"
    ELSE IF IsPred(a) /\ IsPred(b) /\ NegType(Tail(a)) /\ NegType(Tail(b)) THEN "NegByNeg"
    ELSE IF IsSucc(a) /\ IsPred(b) /\ NumType(Tail(a)) /\ NegType(Tail(b)) THEN "PosByNeg"
    ELSE IF IsPred(a) /\ IsSucc(b) /\ NegType(Tail(a)) /\ NumType(Tail(b)) THEN "NegByPos"
    ELSE "None"

Goal(a, b) == [a |-> a, b |-> b]
NoGoal == Goal(NoImpl, NoImpl)

DivWhere(a, b) ==
    LET impl == DivImpl(a, b) IN
    IF impl = "PosByPos" THEN
        LET C == Sub(Tail(a), Tail(b)) IN
        IF C # NoImpl /\ NumType(C) THEN Goal(C, b) ELSE NoGoal
    ELSE IF impl = "NegByNeg" THEN
        LET P  == Neg(Tail(a))
            PP == Neg(Tail(b))
        IN  IF P # NoImpl /\ PP # NoImpl /\ PosType(P) /\ PosType(PP)
            THEN Goal(Succ(P), Succ(PP)) ELSE NoGoal
    ELSE IF impl = "PosByNeg" THEN
        LET PP == Neg(Tail(b)) IN
        IF PP # NoImpl /\ NumType(PP) THEN Goal(a, Succ(PP)) ELSE NoGoal
    ELSE IF impl = "NegByPos" THEN
        LET PP == Neg(Tail(a)) IN
        IF PP # NoImpl /\ NumType(PP) THEN Goal(Succ(PP), b) ELSE NoGoal
    ELSE NoGoal

DivOut_NoNeg(impl, out) ==
    IF out = NoImpl THEN NoImpl
    ELSE IF impl = "PosByPos" THEN Succ(out)
    ELSE IF impl = "NegByNeg" THEN out
    ELSE IF impl \in {"PosByNeg", "NegByPos"} THEN
        (IF IsSucc(out) /\ NumType(Tail(out)) THEN out ELSE NoImpl)
    ELSE NoImpl

DivOut(impl, out) ==
    IF out = NoImpl THEN NoImpl
    ELSE IF impl = "PosByPos" THEN Succ(out)
    ELSE IF impl = "NegByNeg" THEN out
    ELSE IF impl \in {"PosByNeg", "NegByPos"} THEN
        (IF IsSucc(out) /\ NumType(Tail(out)) THEN Neg(out) ELSE NoImpl)
    ELSE NoImpl

\* the well-formed number types of at most MaxMag constructors
Chain(tag, k) == [i \in 1..k |-> tag]
Nums == {Chain("Succ", k) : k \in 0..MaxMag} \cup {Chain("Pred", k) : k \in 1..MaxMag}

VARIABLES acc, last, pc, stack, ret
vars == <<acc, last, pc, stack, ret>>

Applied(op, x, y, out) == [op |-> op, x |-> x, y |-> y, out |-> out]

\* the next operand: the result when it exists and fits the bound
Keep(out) == IF out # NoImpl /\ Len(out) <= MaxMag THEN out ELSE acc

Init ==
    /\ acc \in Nums
    /\ last = Applied("None", Zero, Zero, Zero)
    /\ pc = "idle"
    /\ stack = <<>>
    /\ ret = Zero

DoNeg ==
    /\ pc = "idle"
    /\ last' = Applied("Neg", acc, Zero, Neg(acc))
    /\ acc' = Keep(Neg(acc))
    /\ UNCHANGED <<pc, stack, ret>>

DoIncr ==
    /\ pc = "idle"
    /\ last' = Applied("Incr", acc, Zero, Incr(acc))
    /\ acc' = Keep(Incr(acc))
    /\ UNCHANGED <<pc, stack, ret>>

DoDecr ==
    /\ pc = "idle"
    /\ last' = Applied("Decr", acc, Zero, Decr(acc))
    /\ acc' = Keep(Decr(acc))
    /\ UNCHANGED <<pc, stack, ret>>

DoHalve ==
    /\ pc = "idle"
    /\ last' = Applied("Halve", acc, Zero, Halve(acc))
    /\ acc' = Keep(Halve(acc))
    /\ UNCHANGED <<pc, stack, ret>>

DoAdd ==
    /\ pc = "idle"
    /\ \E y \in Nums :
        /\ last' = Applied("Add", acc, y, Add(acc, y))
        /\ acc' = Keep(Add(acc, y))
    /\ UNCHANGED <<pc, stack, ret>>

DoSub ==
    /\ pc = "idle"
    /\ \E y \in Nums :
        /\ last' = Applied("Sub", acc, y, Sub(acc, y))
        /\ acc' = Keep(Sub(acc, y))
    /\ UNCHANGED <<pc, stack, ret>>

DoMul ==
    /\ pc = "idle"
    /\ \E y \in Nums :
        /\ last' = Applied("Mul", acc, y, Mul(acc, y))
        /\ acc' = Keep(Mul(acc, y))
    /\ UNCHANGED <<pc, stack, ret>>

Top == stack[Len(stack)]
Revisited == \E i \in 1..(Len(stack) - 1) : stack[i] = Top

DivBegin ==
    /\ pc = "idle"
    /\ \E y \in Nums : stack' = <<Goal(acc, y)>>
    /\ pc' = "eval"
    /\ UNCHANGED <<acc, last, ret>>

DivZeroByPos ==
    /\ pc = "eval"
    /\ ~Revisited /\ DivImpl(Top.a, Top.b) = "ZeroByPos"
    /\ pc' = "ret"
    /\ ret' = Zero
    /\ UNCHANGED <<acc, last, stack>>

DivZeroByNeg ==
    /\ pc = "eval"
    /\ ~Revisited /\ DivImpl(Top.a, Top.b) = "ZeroByNeg"
    /\ pc' = "ret"
    /\ ret' = Zero
    /\ UNCHANGED <<acc, last, stack>>

DivPosByPos ==
    /\ pc = "eval"
    /\ ~Revisited
    /\ DivImpl(Top.a, Top.b) = "PosByPos"
    /\ IF DivWhere(Top.a, Top.b) = NoGoal
       THEN pc' = "ret" /\ ret' = NoImpl /\ stack' = stack
       ELSE pc' = pc /\ ret' = ret /\ stack' = Append(stack, DivWhere(Top.a, Top.b))
    /\ UNCHANGED <<acc, last>>

DivNegByNeg ==
    /\ pc = "eval"
    /\ ~Revisited
    /\ DivImpl(Top.a, Top.b) = "NegByNeg"
    /\ IF DivWhere(Top.a, Top.b) = NoGoal
       THEN pc' = "ret" /\ ret' = NoImpl /\ stack' = stack
       ELSE pc' = pc /\ ret' = ret /\ stack' = Append(stack, DivWhere(Top.a, Top.b))
    /\ UNCHANGED <<acc, last>>

DivPosByNeg ==
    /\ pc = "eval"
    /\ ~Revisited
    /\ DivImpl(Top.a, Top.b) = "PosByNeg"
    /\ IF DivWhere(Top.a, Top.b) = NoGoal
       THEN pc' = "ret" /\ ret' = NoImpl /\ stack' = stack
       ELSE pc' = pc /\ ret' = ret /\ stack' = Append(stack, DivWhere(Top.a, Top.b))
    /\ UNCHANGED <<acc, last>>

DivNegByPos ==
    /\ pc = "eval"
    /\ ~Revisited
    /\ DivImpl(Top.a, Top.b) = "NegByPos"
    /\ IF DivWhere(Top.a, Top.b) = NoGoal
       THEN pc' = "ret" /\ ret' = NoImpl /\ stack' = stack
       ELSE pc' = pc /\ ret' = ret /\ stack' = Append(stack, DivWhere(Top.a, Top.b))
    /\ UNCHANGED <<acc, last>>

DivNoImpl ==
    /\ pc = "eval"
    /\ ~Revisited /\ DivImpl(Top.a, Top.b) = "None"
    /\ pc' = "ret"
    /\ ret' = NoImpl
    /\ UNCHANGED <<acc, last, stack>>

\* an obligation that requires itself is an error of the solver
DivOverflow ==
    /\ pc = "eval"
    /\ Revisited
    /\ pc' = "ret"
    /\ ret' = NoImpl
    /\ UNCHANGED <<acc, last, stack>>

DivReturn ==
    /\ pc = "ret"
    /\ Len(stack) > 1
    /\ LET parent == stack[Len(stack) - 1] IN
       ret' = DivOut(DivImpl(parent.a, parent.b), ret)
    /\ stack' = SubSeq(stack, 1, Len(stack) - 1)
    /\ UNCHANGED <<acc, last, pc>>

DivFinish ==
    /\ pc = "ret"
    /\ Len(stack) = 1
    /\ last' = Applied("Div", stack[1].a, stack[1].b, ret)
    /\ acc' = Keep(ret)
    /\ pc' = "idle"
    /\ stack' = <<>>
    /\ ret' = Zero

Next ==
    \/ DoNeg
    \/ DoIncr
    \/ DoDecr
    \/ DoHalve
    \/ DoAdd
    \/ DoSub
    \/ DoMul
    \/ DivBegin
    \/ DivZeroByPos
    \/ DivZeroByNeg
    \/ DivPosByPos
    \/ DivNegByNeg
    \/ DivPosByNeg
    \/ DivNegByPos
    \/ DivNoImpl
    \/ DivOverflow
    \/ DivReturn
    \/ DivFinish

Spec == Init /\ [][Next]_vars

WellFormed(n) == PosType(n) \/ NegType(n)
Abs(i) == IF i < 0 THEN -i ELSE i
TruncDiv(m, n) ==
    IF (m < 0) = (n < 0) THEN Abs(m) \div Abs(n) ELSE -(Abs(m) \div Abs(n))

TypeOK ==
    /\ acc \in Nums
    /\ pc \in {"idle", "eval", "ret"}
    /\ (pc = "idle") = (stack = <<>>)

Defined(n) == n # NoImpl
InDiv == pc \in {"eval", "ret"}

\* C1: for every numeral a and nonzero numeral b, Div<a,b> has an Out whose
\* integer value is Into(a) / Into(b) truncated toward zero, also when b does
\* not divide a and when |a| < |b|.
C1_DivTruncates ==
    (last.op = "Div" /\ last.y # Zero) =>
        /\ Defined(last.out)
        /\ Into(last.out) = TruncDiv(Into(last.x), Into(last.y))

\* C2: resolving Div<a,b> with a nonzero divisor never requires an obligation
\* (dividend, divisor) that is already being resolved, so the resolution cannot
\* recurse forever.
C2_DivNeverRevisits ==
    (InDiv /\ stack[1].b # Zero) =>
        \A i, j \in 1..Len(stack) : (i # j) => (stack[i] # stack[j])

\* C3: Div<a,Zero> has no impl, whatever the dividend a.
C3_DivByZeroFails ==
    /\ (last.op = "Div" /\ last.y = Zero) => last.out = NoImpl
    /\ (InDiv /\ stack[1].b = Zero) =>
           /\ Len(stack) = 1
           /\ DivImpl(stack[1].a, stack[1].b) = "None"
           /\ (pc = "ret" => ret = NoImpl)

C3_Witness ==
    /\ last.op = "Div"
    /\ last.y = Zero
    /\ last.x = Pred(Pred(Zero))
    /\ last.out = NoImpl

\* C4: Add<a,b> is defined for well-formed a and b of every sign combination,
\* its integer value is Into(a) + Into(b), and it is commutative and
\* associative under Into.
C4_AddIsSum ==
    (last.op = "Add") =>
        /\ Defined(last.out)
        /\ Into(last.out) = Into(last.x) + Into(last.y)
        /\ Defined(Add(last.y, last.x))
        /\ Into(Add(last.y, last.x)) = Into(last.out)
        /\ \A c \in Nums :
               /\ Defined(Add(last.out, c))
               /\ Defined(Add(last.x, Add(last.y, c)))
               /\ Into(Add(last.out, c)) = Into(Add(last.x, Add(last.y, c)))

C4_Witness ==
    /\ last.op = "Add"
    /\ last.x = Pred(Pred(Zero))
    /\ last.y = Succ(Succ(Succ(Zero)))
    /\ last.out = Succ(Zero)

\* C5: Mul<a,b> is defined for well-formed a and b of every sign combination
\* and its integer value is Into(a) * Into(b); a negative left operand takes
\* one copy of b away per Pred.
C5_MulIsProduct ==
    (last.op = "Mul") =>
        /\ Defined(last.out)
        /\ Into(last.out) = Into(last.x) * Into(last.y)
        /\ IsPred(last.x) =>
               Into(last.out) = Into(Mul(Tail(last.x), last.y)) - Into(last.y)

C5_Witness ==
    /\ last.op = "Mul"
    /\ last.x = Pred(Pred(Zero))
    /\ last.y = Pred(Pred(Zero))
    /\ last.out = Succ(Succ(Succ(Succ(Zero))))

\* C6: when the dividend is an exact multiple q*b of a nonzero divisor b, in
\* each of the four sign combinations and for dividend Zero, Div<a,b> is
\* defined and its integer value is q.
C6_DivExact ==
    (last.op = "Div" /\ last.y # Zero) =>
        \A q \in -MaxMag..MaxMag :
            (Into(last.x) = q * Into(last.y)) =>
                (Defined(last.out) /\ Into(last.out) = q)

C6_Witness ==
    /\ last.op = "Div"
    /\ last.x = Pred(Pred(Pred(Pred(Zero))))
    /\ last.y = Succ(Succ(Zero))
    /\ last.out = Pred(Pred(Zero))

\* C7: Halve<x> is defined exactly when x has even magnitude, and then twice
\* its integer value is the integer value of x.
C7_HalveEven ==
    (last.op = "Halve") =>
        /\ Defined(last.out) <=> (Len(last.x) % 2 = 0)
        /\ Defined(last.out) => Into(last.out) * 2 = Into(last.x)

C7_Witness ==
    /\ last.op = "Halve"
    /\ last.x = Pred(Pred(Pred(Zero)))
    /\ last.out = NoImpl

\* C8: Sub<a,b> is defined for well-formed a and b of every sign combination,
\* is Add<a,Neg<b>>, and its integer value is Into(a) - Into(b).
C8_SubIsDifference ==
    (last.op = "Sub") =>
        /\ Defined(last.out)
        /\ last.out = Add(last.x, Neg(last.y))
        /\ Into(last.out) = Into(last.x) - Into(last.y)

C8_Witness ==
    /\ last.op = "Sub"
    /\ last.x = Succ(Succ(Zero))
    /\ last.y = Succ(Succ(Succ(Zero)))
    /\ last.out = Pred(Zero)

\* C9: Neg<x> is defined for every well-formed x with integer value -Into(x):
\* Zero maps to Zero, a Succ chain to the Pred chain of the same length and a
\* Pred chain to the Succ chain of the same length.
C9_NegIsOpposite ==
    (last.op = "Neg") =>
        /\ Defined(last.out)
        /\ Into(last.out) = -Into(last.x)
        /\ (last.x = Zero) => (last.out = Zero)
        /\ IsSucc(last.x) => (last.out = Chain("Pred", Len(last.x)))
        /\ IsPred(last.x) => (last.out = Chain("Succ", Len(last.x)))

C9_Witness ==
    /\ last.op = "Neg"
    /\ last.x = Pred(Pred(Pred(Zero)))
    /\ last.out = Succ(Succ(Succ(Zero)))

\* C10: every defined result of Neg, Incr, Decr, Add, Sub, Halve, Mul and Div
\* on well-formed operands is Zero, a pure Succ chain or a pure Pred chain, so
\* is every operand a sequence of applications reaches, and Incr<Pred<a>> = a
\* and Decr<Succ<a>> = a cancel instead of wrapping.
C10_WellFormedPreserved ==
    /\ WellFormed(acc)
    /\ WellFormed(last.x) /\ WellFormed(last.y)
    /\ Defined(last.out) => WellFormed(last.out)
    /\ \A i \in 1..Len(stack) : WellFormed(stack[i].a) /\ WellFormed(stack[i].b)
    /\ (pc = "ret" /\ Defined(ret)) => WellFormed(ret)
    /\ (last.op = "Incr" /\ IsPred(last.x)) => (last.out = Tail(last.x))
    /\ (last.op = "Decr" /\ IsSucc(last.x)) => (last.out = Tail(last.x))

C10_Witness ==
    /\ last.op = "Add"
    /\ last.x = Succ(Succ(Zero))
    /\ last.y = Pred(Pred(Pred(Zero)))
    /\ last.out = Pred(Zero)
    /\ acc = Pred(Zero)
====
